---------------------------- MODULE Spec2Model ----------------------------
(***************************************************************************)
(* Contradiction scoring of src/ai-engine/src/core/multilingual_nlp.py:    *)
(* AdvancedMultilingualNLP.detect_logical_inconsistency and its three      *)
(* detectors (_check_settlement_contradiction, _check_direct_negation,     *)
(* _check_authority_violation).                                            *)
(*                                                                         *)
(* Conventions.                                                            *)
(*  - A Python str that is searched with `in` is a sequence of one-        *)
(*    character strings; a str that is only compared or formatted          *)
(*    (language codes, authority names, explanations) is a TLA+ string.    *)
(*  - A confidence is an integer number of hundredths: 0.89 is 89.         *)
(*  - A cosine similarity is kept exactly, as the record [num, sq] that    *)
(*    stands for num / sqrt(sq).                                           *)
(*  - The outcome of a call is Return(...) or Raise(exception).            *)
(*  - A letter outside ASCII is written as its Python escape, in a name    *)
(*    and as a character of a text.                                        *)
(***************************************************************************)
EXTENDS Integers, Sequences, FiniteSets, TLC

VARIABLES
    stmt1,                \* first argument of the call
    stmt2,                \* second argument of the call
    forced,               \* detector methods replaced by a stub (test double)
    pc,                   \* position of the call in progress
    similarity,           \* local of detect_logical_inconsistency
    inconsistency_score,  \* local of detect_logical_inconsistency
    explanation,          \* local of detect_logical_inconsistency
    pattern_type,         \* local of detect_logical_inconsistency
    scores,               \* what each detector returned to the orchestrator
    result,               \* outcome of detect_logical_inconsistency
    direct,               \* outcomes of a detector called on its own
    completed,            \* parallel evaluation: findings, as they completed
    combined,             \* parallel evaluation: the finding selected
    frames                \* concurrent calls: arguments and locals of each

vars == << stmt1, stmt2, forced, pc, similarity, inconsistency_score,
           explanation, pattern_type, scores, result, direct, completed,
           combined, frames >>

----------------------------------------------------------------------------
(* Bounds of the explored inputs *)

\* embeddings have 1..MaxDim components
MaxDim == 2
\* each component of an embedding is in 0..MaxCoord
MaxCoord == 1
\* authority_references hold at most MaxAuthRefs names
MaxAuthRefs == 2

----------------------------------------------------------------------------
(* Outcomes of calls *)

NotCalled == [kind |-> "none"]
Return(score, expl) == [kind |-> "return", score |-> score, explanation |-> expl]
Raise(exception) == [kind |-> "raise", exception |-> exception]
Returned(r) == r.kind = "return"
Raised(r) == r.kind = "raise"

\* the tuple detect_logical_inconsistency returns
ReturnTriple(score, expl, ptype) ==
    [kind |-> "return", score |-> score, explanation |-> expl,
     pattern_type |-> ptype]

----------------------------------------------------------------------------
(* Calibrated confidences, in hundredths *)

SettlementConfidence == 89
NegationConfidence == 92
AuthorityConfidence == 94

SettlementExplanation ==
    "Settlement offer while denying liability indicates logical inconsistency"
NegationExplanation ==
    "Direct logical negation detected between similar statements"

----------------------------------------------------------------------------
(* Python primitives *)

UpperCase ==
    <<"A","B","C","D","E","F","G","H","I","J","K","L","M","N","O","P","Q","R",
      "S","T","U","V","W","X","Y","Z","\\u00c6","\\u00d8","\\u00c5">>
LowerCase ==
    <<"a","b","c","d","e","f","g","h","i","j","k","l","m","n","o","p","q","r",
      "s","t","u","v","w","x","y","z","\\u00e6","\\u00f8","\\u00e5">>

\* str.lower() of one character
lower_char(c) ==
    IF \E i \in 1..Len(UpperCase) : UpperCase[i] = c
    THEN LowerCase[CHOOSE i \in 1..Len(UpperCase) : UpperCase[i] = c]
    ELSE c

\* str.lower()
lower(text) == [i \in 1..Len(text) |-> lower_char(text[i])]

\* `pattern in text` on two str
contains(text, pattern) ==
    \E i \in 1..(Len(text) - Len(pattern) + 1) :
        \A k \in 1..Len(pattern) : text[i + k - 1] = pattern[k]

\* dict.get(key, default)
get(dict, key, default) == IF key \in DOMAIN dict THEN dict[key] ELSE default

RECURSIVE dot(_, _)
dot(x, y) == IF x = <<>> THEN 0 ELSE Head(x) * Head(y) + dot(Tail(x), Tail(y))

\* an embedding is None or an array
NoneEmbedding == [is_none |-> TRUE, array |-> <<>>]
Array(v) == [is_none |-> FALSE, array |-> v]

\* cosine_similarity(e1.reshape(1, -1), e2.reshape(1, -1))[0][0]:
\* None has no reshape; sklearn rejects rows of different length; a zero row
\* is left as it is by the normalisation, so its similarity is 0.
cosine_similarity(e1, e2) ==
    IF e1.is_none \/ e2.is_none THEN Raise("AttributeError")
    ELSE IF Len(e1.array) # Len(e2.array) THEN Raise("ValueError")
    ELSE [kind |-> "value",
          num |-> dot(e1.array, e2.array),
          sq |-> dot(e1.array, e1.array) * dot(e2.array, e2.array)]

\* a threshold that 0.7 itself passes
reaches_threshold(sim) ==
    sim.num > 0 /\ 100 * sim.num * sim.num >= 49 * sim.sq

\* `similarity > 0.7`:  num / sqrt(sq) > 7/10
exceeds_threshold(sim) ==
    sim.num > 0 /\ 100 * sim.num * sim.num > 49 * sim.sq

----------------------------------------------------------------------------
(* Lexicon tables *)

SupportedLanguage ==
    {"no", "sv", "da", "en", "de", "fr", "nl", "it", "es", "pt", "fi", "is",
     "lv", "lt", "et"}

settlement_patterns ==
    [no |->
       [offer |-> <<
            <<"t","i","l","b","y">>,
            <<"t","i","l","b","y","r">>,
            <<"t","i","l","b","u","d">>,
            <<"o","p","p","g","j","\\u00f8","r">>,
            <<"b","e","t","a","l","i","n","g">>,
            <<"k","o","m","p","e","n","s","a","s","j","o","n">> >>,
        denial |-> <<
            <<"i","k","k","e"," ","a","n","s","v","a","r","l","i","g">>,
            <<"b","e","n","e","k","t","e","r">>,
            <<"a","v","v","i","s","e","r">>,
            <<"b","e","s","t","r","i","d","e","r">>,
            <<"i","n","g","e","n"," ","f","o","r","p","l","i","k","t","e","l","s","e">> >>],
     en |->
       [offer |-> <<
            <<"o","f","f","e","r">>,
            <<"s","e","t","t","l","e","m","e","n","t">>,
            <<"p","a","y","m","e","n","t">>,
            <<"c","o","m","p","e","n","s","a","t","i","o","n">> >>,
        denial |-> <<
            <<"n","o","t"," ","l","i","a","b","l","e">>,
            <<"d","e","n","y">>,
            <<"r","e","j","e","c","t">>,
            <<"d","i","s","p","u","t","e">>,
            <<"n","o"," ","o","b","l","i","g","a","t","i","o","n">> >>]]

\* logical_markers[language]['negations']; the connectors and modals fill
\* fields of logical_structure that no detector reads
logical_markers ==
    [no |-> [negations |-> <<
                <<"i","k","k","e">>,
                <<"i","n","g","e","n">>,
                <<"a","l","d","r","i">>,
                <<"u","t","e","n">> >>],
     en |-> [negations |-> <<
                <<"n","o","t">>,
                <<"n","o">>,
                <<"n","e","v","e","r">>,
                <<"w","i","t","h","o","u","t">> >>]]

authority_levels ==
    ("H\\u00f8yesterett" :> 10) @@ ("Lagmannsrett" :> 8) @@ ("Tingrett" :> 6) @@
    ("NAV" :> 7) @@ ("Finansklagenemnda" :> 5) @@ ("Finanstilsynet" :> 4) @@
    ("insurance_company" :> 2)

----------------------------------------------------------------------------
(* Statements *)

SemanticStatement(text, language, negation_scope, embedding, authority_references) ==
    [text |-> text,
     language |-> language,
     logical_structure |-> [negation_scope |-> negation_scope],
     embedding |-> embedding,
     authority_references |-> authority_references]

\* the loop `for negation in markers['negations']`
RECURSIVE matched_markers(_, _)
matched_markers(markers, text_lower) ==
    IF markers = <<>> THEN <<>>
    ELSE (IF contains(text_lower, Head(markers)) THEN <<Head(markers)>> ELSE <<>>)
         \o matched_markers(Tail(markers), text_lower)

\* structure['negation_scope'] of _extract_logical_structure(text, language)
_extract_logical_structure(text, language) ==
    IF language \in DOMAIN logical_markers
    THEN [negation_scope |->
            matched_markers(logical_markers[language].negations, lower(text))]
    ELSE [negation_scope |-> <<>>]

----------------------------------------------------------------------------
(* Detector: settlement contradiction *)

\* a guard on the first language only
first_in_table(lang1, lang2) == lang1 \in DOMAIN settlement_patterns

\* `lang1 in settlement_patterns and lang2 in settlement_patterns`
both_in_table(lang1, lang2) ==
    lang1 \in DOMAIN settlement_patterns /\ lang2 \in DOMAIN settlement_patterns

\* a search of the first text only
in_first(pattern, text1_lower, text2_lower) == contains(text1_lower, pattern)

\* `pattern in text1_lower or pattern in text2_lower`
in_either(pattern, text1_lower, text2_lower) ==
    contains(text1_lower, pattern) \/ contains(text2_lower, pattern)

\* a search that gives up after the first pattern of the list
first_in_either(patterns, text1_lower, text2_lower) ==
    patterns # <<>> /\ in_either(Head(patterns), text1_lower, text2_lower)

\* any(pattern in text1_lower or pattern in text2_lower for pattern in patterns)
RECURSIVE any_in_either(_, _, _)
any_in_either(patterns, text1_lower, text2_lower) ==
    IF patterns = <<>> THEN FALSE
    ELSE IF in_either(Head(patterns), text1_lower, text2_lower) THEN TRUE
    ELSE any_in_either(Tail(patterns), text1_lower, text2_lower)

_check_settlement_contradiction(s1, s2) ==
    LET lang1 == s1.language
        lang2 == s2.language
    IN  IF both_in_table(lang1, lang2)
        THEN LET patterns == settlement_patterns[lang1]
                 text1_lower == lower(s1.text)
                 text2_lower == lower(s2.text)
                 has_offer == any_in_either(patterns.offer, text1_lower, text2_lower)
                 has_denial == any_in_either(patterns.denial, text1_lower, text2_lower)
             IN  IF has_offer /\ has_denial
                 THEN Return(SettlementConfidence, SettlementExplanation)
                 ELSE Return(0, "")
        ELSE Return(0, "")

----------------------------------------------------------------------------
(* Detector: direct negation *)

\* the body of either branch: similarity of the embeddings, then the threshold
similar_statements(s1, s2) ==
    LET sim == cosine_similarity(s1.embedding, s2.embedding)
    IN  IF Raised(sim) THEN sim
        ELSE IF exceeds_threshold(sim)
             THEN Return(NegationConfidence, NegationExplanation)
             ELSE Return(0, "")

_check_direct_negation(s1, s2) ==
    LET negations1 == s1.logical_structure.negation_scope
        negations2 == s2.logical_structure.negation_scope
    IN  IF negations1 # <<>> /\ negations2 = <<>>
        THEN similar_statements(s1, s2)
        ELSE IF negations2 # <<>> /\ negations1 = <<>>
             THEN similar_statements(s1, s2)
             ELSE Return(0, "")

----------------------------------------------------------------------------
(* Detector: authority hierarchy violation *)

\* authority_levels.get(a, 1)
level_of(a) == get(authority_levels, a, 1)

\* a comparison that equal ranks pass
outranks_or_equals(level1, level2) == level1 >= level2

\* `level1 > level2`
outranks(level1, level2) == level1 > level2

\* f"Lower authority {a2} contradicts higher authority {a1}"
authority_explanation(a1, a2) ==
    "Lower authority " \o a2 \o " contradicts higher authority " \o a1

\* `for a1 in auth1: for a2 in auth2:` from the pair (i, j) on
RECURSIVE authority_loop(_, _, _, _)
authority_loop(auth1, auth2, i, j) ==
    IF i > Len(auth1) THEN Return(0, "")
    ELSE IF j > Len(auth2) THEN authority_loop(auth1, auth2, i + 1, 1)
    ELSE IF outranks(level_of(auth1[i]), level_of(auth2[j]))
         THEN Return(AuthorityConfidence, authority_explanation(auth1[i], auth2[j]))
         ELSE authority_loop(auth1, auth2, i, j + 1)

\* the nested loops with stmt2's references outside and stmt1's inside
RECURSIVE authority_loop_transposed(_, _, _, _)
authority_loop_transposed(auth1, auth2, i, j) ==
    IF j > Len(auth2) THEN Return(0, "")
    ELSE IF i > Len(auth1) THEN authority_loop_transposed(auth1, auth2, 1, j + 1)
    ELSE IF outranks(level_of(auth1[i]), level_of(auth2[j]))
         THEN Return(AuthorityConfidence, authority_explanation(auth1[i], auth2[j]))
         ELSE authority_loop_transposed(auth1, auth2, i + 1, j)

_check_authority_violation_transposed(s1, s2) ==
    LET auth1 == s1.authority_references
        auth2 == s2.authority_references
    IN  IF auth1 # <<>> /\ auth2 # <<>>
        THEN authority_loop_transposed(auth1, auth2, 1, 1)
        ELSE Return(0, "")

_check_authority_violation(s1, s2) ==
    LET auth1 == s1.authority_references
        auth2 == s2.authority_references
    IN  IF auth1 # <<>> /\ auth2 # <<>>
        THEN authority_loop(auth1, auth2, 1, 1)
        ELSE Return(0, "")

----------------------------------------------------------------------------
(* Orchestrator: detect_logical_inconsistency *)

Detectors == {"settlement", "negation", "authority"}

\* the detector as written in the class
real_detector(d, s1, s2) ==
    CASE d = "settlement" -> _check_settlement_contradiction(s1, s2)
      [] d = "negation" -> _check_direct_negation(s1, s2)
      [] d = "authority" -> _check_authority_violation(s1, s2)

\* `await self._check_...(stmt1, stmt2)`: the attribute is looked up on the
\* instance, so a stub set on it is what runs
call_detector(d, s1, s2) ==
    IF forced[d].kind = "none" THEN real_detector(d, s1, s2) ELSE forced[d]

\* no similarity computed up front (its value is not used afterwards)
no_semantic_similarity(s1, s2) == [kind |-> "value", num |-> 0, sq |-> 0]

\* the up-front similarity of the two embeddings
semantic_similarity(s1, s2) == cosine_similarity(s1.embedding, s2.embedding)

\* a comparison that lets a tie replace the running best
replaces_on_tie(score, best) == score >= best

\* the first detector that fires keeps the result
replaces_first_firing(score, best) == score > best /\ best = 0

\* `<detector>_score > inconsistency_score`
replaces(score, best) == score > best

pattern_type_of ==
    [settlement |-> "settlement_contradiction",
     negation |-> "direct_negation",
     authority |-> "authority_violation"]

----------------------------------------------------------------------------
(* Inputs *)

\* "We offer a settlement of $5000"
TextOffer ==
    <<"W","e"," ","o","f","f","e","r"," ","a"," ","s","e","t","t","l","e","m","e","n","t"," ","o","f"," ","$","5","0","0","0">>
\* "We are not liable for any damages"
TextNotLiable ==
    <<"W","e"," ","a","r","e"," ","n","o","t"," ","l","i","a","b","l","e"," ","f","o","r"," ","a","n","y"," ","d","a","m","a","g","e","s">>
\* "Et OPPGJ\u00d8R er klart"
TextOppgjor ==
    <<"E","t"," ","O","P","P","G","J","\\u00d8","R"," ","e","r"," ","k","l","a","r","t">>
\* "Vi er ikke ansvarlig"
TextIkkeAnsvarlig ==
    <<"V","i"," ","e","r"," ","i","k","k","e"," ","a","n","s","v","a","r","l","i","g">>
\* "The contract was signed"
TextNeutral ==
    <<"T","h","e"," ","c","o","n","t","r","a","c","t"," ","w","a","s"," ","s","i","g","n","e","d">>
\* "We DENY the Payment"
TextDenyPayment ==
    <<"W","e"," ","D","E","N","Y"," ","t","h","e"," ","P","a","y","m","e","n","t">>

Texts ==
    {TextOffer, TextNotLiable, TextOppgjor, TextIkkeAnsvarlig, TextNeutral,
     TextDenyPayment}

\* two languages of the settlement table, a supported language outside it,
\* and a language outside the supported set
Languages == {"en", "no", "de", "xx"}

\* the arrays of 1..MaxDim components in 0..MaxCoord, two arrays whose cosine
\* is 7/10 exactly, an array of negative cosine with <<1, 0>>, and no array
BoundaryArrays == {<<1, 0, 0, 0>>, <<7, 1, 5, 5>>, <<-1, 0>>}
Embeddings ==
    {Array(v) : v \in UNION {[1..n -> 0..MaxCoord] : n \in 1..MaxDim}}
    \cup {Array(v) : v \in BoundaryArrays}
    \cup {NoneEmbedding}

AuthorityNames == {"H\\u00f8yesterett", "Tingrett", "insurance_company", "Politiet"}
AuthorityLists == UNION {[1..n -> AuthorityNames] : n \in 0..MaxAuthRefs}

\* a negation_scope as the extraction leaves it, and one set by the caller
NegationScopes == {<<>>, <<logical_markers.no.negations[1]>>}

DefaultEmbedding == Array(<<1, 0>>)

\* what _create_semantic_statement builds of a text without authority names
Created(text, language, embedding) ==
    SemanticStatement(text, language,
                      _extract_logical_structure(text, language).negation_scope,
                      embedding, <<>>)

\* statements that differ in text and language
TextStatements ==
    {Created(t, l, DefaultEmbedding) : t \in Texts, l \in Languages}

\* statements that differ in negation scope and embedding
NegationStatements ==
    {SemanticStatement(TextNeutral, "en", n, e, <<>>) :
        n \in NegationScopes, e \in Embeddings}

\* statements that differ in authority references
AuthorityStatements ==
    {SemanticStatement(TextNeutral, "en", <<>>, DefaultEmbedding, a) :
        a \in AuthorityLists}

\* statements on which several detectors can fire at once
MixedStatements ==
    {SemanticStatement(t, l, n, e, a) :
        t \in {TextOffer, TextNotLiable},
        l \in {"en", "xx"},
        n \in {<<>>, _extract_logical_structure(TextNotLiable, "en").negation_scope},
        e \in {Array(<<1, 0>>), Array(<<0, 1>>), NoneEmbedding},
        a \in {<<>>, <<"H\\u00f8yesterett">>, <<"insurance_company">>}}

StatementFamilies ==
    {TextStatements, NegationStatements, AuthorityStatements, MixedStatements}

\* stubs: a detector forced to a confidence, or left as written (-1)
ForcedScores == {0, 50, 89, 92, 94, 100}
NotForced == [d \in Detectors |-> NotCalled]
Forcings ==
    {[d \in Detectors |->
        IF g[d] = -1 THEN NotCalled
        ELSE Return(g[d], IF g[d] = 0 THEN "" ELSE "forced " \o d)] :
     g \in [Detectors -> ForcedScores \cup {-1}]}

\* the pair the stubs are tried on: settlement fires, nothing else does
ForcedStmt1 == Created(TextOffer, "en", Array(<<1, 0>>))
ForcedStmt2 == Created(TextNotLiable, "en", Array(<<0, 1>>))

----------------------------------------------------------------------------
(* State machine *)

NoScores == [d \in Detectors |-> NotCalled]
NoDirect == [detector |-> "", first |-> NotCalled, swapped |-> NotCalled]

Init ==
    /\ \/ /\ forced = NotForced
          /\ \E F \in StatementFamilies : stmt1 \in F /\ stmt2 \in F
       \/ /\ forced \in Forcings
          /\ stmt1 = ForcedStmt1
          /\ stmt2 = ForcedStmt2
    /\ pc = "idle"
    /\ similarity = NotCalled
    /\ inconsistency_score = 0
    /\ explanation = ""
    /\ pattern_type = ""
    /\ scores = NoScores
    /\ result = NotCalled
    /\ direct = NoDirect
    /\ completed = << >>
    /\ combined = NotCalled
    /\ frames = << >>

inputs == << stmt1, stmt2, forced >>
parallel == << completed, combined >>

\* lines 455-464: the similarity of the embeddings, then the running best
DetectStart ==
    /\ pc = "idle"
    /\ LET sim == semantic_similarity(stmt1, stmt2)
       IN  /\ similarity' = sim
           /\ IF Raised(sim)
              THEN /\ pc' = "raised"
                   /\ result' = sim
              ELSE /\ pc' = "settlement"
                   /\ result' = result
    /\ inconsistency_score' = 0
    /\ explanation' = ""
    /\ pattern_type' = ""
    /\ UNCHANGED << inputs, frames, parallel, scores, direct >>

\* one detector awaited and compared with the running best
Step(d, next) ==
    LET r == call_detector(d, stmt1, stmt2)
    IN  /\ scores' = [scores EXCEPT ![d] = r]
        /\ IF Raised(r)
           THEN /\ pc' = "raised"
                /\ result' = r
                /\ UNCHANGED << inconsistency_score, explanation, pattern_type >>
           ELSE /\ IF replaces(r.score, inconsistency_score)
                   THEN /\ inconsistency_score' = r.score
                        /\ explanation' = r.explanation
                        /\ pattern_type' = pattern_type_of[d]
                   ELSE UNCHANGED << inconsistency_score, explanation, pattern_type >>
                /\ pc' = next
                /\ result' =
                     IF next = "done"
                     THEN ReturnTriple(inconsistency_score', explanation',
                                       pattern_type')
                     ELSE result
        /\ UNCHANGED << inputs, frames, parallel, similarity, direct >>

\* lines 466-474
DetectSettlement == pc = "settlement" /\ Step("settlement", "negation")

\* lines 476-484
DetectNegation == pc = "negation" /\ Step("negation", "authority")

\* lines 486-496
DetectAuthority == pc = "authority" /\ Step("authority", "done")

\* a detector called on its own, as written
Direct(d) ==
    /\ pc = "idle"
    /\ forced = NotForced
    /\ pc' = "called"
    /\ direct' = [detector |-> d,
                  first |-> real_detector(d, stmt1, stmt2),
                  swapped |-> NotCalled]
    /\ UNCHANGED << inputs, frames, parallel, similarity, inconsistency_score, explanation,
                    pattern_type, scores, result >>

CheckSettlement == Direct("settlement")
CheckNegation == Direct("negation")
CheckAuthority == Direct("authority")

\* the same detector called again with the two statements exchanged
CheckSwapped ==
    /\ pc = "called"
    /\ pc' = "called_swapped"
    /\ direct' = [direct EXCEPT
                    !.swapped = real_detector(direct.detector, stmt2, stmt1)]
    /\ UNCHANGED << inputs, frames, parallel, similarity, inconsistency_score, explanation,
                    pattern_type, scores, result >>

Next ==
    \/ DetectStart
    \/ DetectSettlement
    \/ DetectNegation
    \/ DetectAuthority
    \/ CheckSettlement
    \/ CheckNegation
    \/ CheckAuthority
    \/ CheckSwapped

Spec == Init /\ [][Next]_vars

----------------------------------------------------------------------------
(* Vocabulary of the properties *)

\* the order in which detect_logical_inconsistency awaits the detectors
DetectorOrder == <<"settlement", "negation", "authority">>

\* detect_logical_inconsistency has returned
Done == pc = "done"

\* a detector called on its own has returned or raised
Called(d) == pc \in {"called", "called_swapped"} /\ direct.detector = d

\* both embeddings are arrays of one length
WellFormed(s1, s2) ==
    /\ ~s1.embedding.is_none
    /\ ~s2.embedding.is_none
    /\ Len(s1.embedding.array) = Len(s2.embedding.array)

\* the largest confidence the three detectors returned
BestScore ==
    CHOOSE m \in {scores[d].score : d \in Detectors} :
        \A d \in Detectors : scores[d].score <= m

\* the earliest detector of DetectorOrder that returned BestScore
Winner ==
    DetectorOrder[
        CHOOSE i \in 1..Len(DetectorOrder) :
            /\ scores[DetectorOrder[i]].score = BestScore
            /\ \A j \in 1..(i - 1) : scores[DetectorOrder[j]].score < BestScore]

----------------------------------------------------------------------------
(* C1 *)

\* C1, as stated: whatever the three confidences are, the result carries the
\* largest of them with the explanation and the pattern_type of the earliest
\* detector that attains it.
C1_AsStated ==
    Done =>
        /\ result.score = BestScore
        /\ result.explanation = scores[Winner].explanation
        /\ result.pattern_type = pattern_type_of[Winner]

\* C1, amended: the result carries the largest of the three confidences; when
\* that is above zero, with the explanation and the pattern_type of the
\* earliest detector that attains it (an exact tie goes to the earlier one);
\* when all three are zero, with the empty explanation and pattern_type.
C1_TieBreak ==
    Done =>
        /\ result.score = BestScore
        /\ BestScore > 0 =>
             /\ result.explanation = scores[Winner].explanation
             /\ result.pattern_type = pattern_type_of[Winner]
        /\ BestScore = 0 =>
             /\ result.explanation = ""
             /\ result.pattern_type = ""

\* Settlement (as written) and a stubbed Authority tie at 0.89, and the
\* Settlement finding is the one returned
C1_Witness ==
    /\ Done
    /\ forced["settlement"] = NotCalled
    /\ scores["settlement"].score = SettlementConfidence
    /\ scores["negation"].score = 0
    /\ scores["authority"].score = SettlementConfidence
    /\ result = ReturnTriple(SettlementConfidence, SettlementExplanation,
                             "settlement_contradiction")

----------------------------------------------------------------------------
(* C2 *)

\* C2: a well-formed pair never makes detect_logical_inconsistency raise, and
\* when each of the three detectors returned (0.0, "") the result is exactly
\* (0.0, "", ""): no pattern_type of a detector that did not fire.
C2_NoDetectorFires ==
    /\ WellFormed(stmt1, stmt2) => pc # "raised"
    /\ (Done /\ \A d \in Detectors : scores[d] = Return(0, "")) =>
           result = ReturnTriple(0, "", "")

\* the three detectors as written ran on a well-formed pair and none fired
C2_Witness ==
    /\ Done
    /\ forced = NotForced
    /\ WellFormed(stmt1, stmt2)
    /\ \A d \in Detectors : scores[d] = Return(0, "")
    /\ result = ReturnTriple(0, "", "")

----------------------------------------------------------------------------
(* C3 *)

\* C3, as stated: the Settlement detector returns the same confidence and
\* explanation when the two statements are exchanged, whatever their texts
\* and languages.
C3_AsStated ==
    (Called("settlement") /\ pc = "called_swapped") =>
        direct.swapped = direct.first

\* C3, amended: the Settlement detector returns the same confidence and
\* explanation when the two statements are exchanged, for every pair whose two
\* languages are equal or of which a language has no entry in the settlement
\* table; two different languages of the table are looked up in the vocabulary
\* of the first statement only, and the two orders can differ.
C3_SymmetricSameLanguage ==
    (/\ Called("settlement")
     /\ pc = "called_swapped"
     /\ \/ stmt1.language = stmt2.language
        \/ stmt1.language \notin DOMAIN settlement_patterns
        \/ stmt2.language \notin DOMAIN settlement_patterns) =>
        direct.swapped = direct.first

\* an English offer and an English denial fire in both orders
C3_Witness ==
    /\ Called("settlement")
    /\ pc = "called_swapped"
    /\ stmt1.language = "en"
    /\ stmt2.language = "en"
    /\ stmt1.text = TextOffer
    /\ stmt2.text = TextNotLiable
    /\ direct.first = Return(SettlementConfidence, SettlementExplanation)
    /\ direct.swapped = direct.first

----------------------------------------------------------------------------
(* C4 *)

\* some term of the list is a substring of either lower-cased text
TermInEitherText(terms, s1, s2) ==
    \E i \in 1..Len(terms) :
        \/ contains(lower(s1.text), terms[i])
        \/ contains(lower(s2.text), terms[i])

\* both languages are in the table and, in the vocabulary of the first
\* statement's language, an offer term and a denial term occur
SettlementCondition(s1, s2) ==
    /\ s1.language \in DOMAIN settlement_patterns
    /\ s2.language \in DOMAIN settlement_patterns
    /\ TermInEitherText(settlement_patterns[s1.language].offer, s1, s2)
    /\ TermInEitherText(settlement_patterns[s1.language].denial, s1, s2)

\* C4: the Settlement detector returns 0.89 (with its explanation) exactly
\* when both languages have an entry in the settlement table and, in the
\* vocabulary of stmt1.language, an offer term and a denial term each occur in
\* either lower-cased text; in every other case it returns (0.0, "").
C4_SettlementExactly ==
    Called("settlement") =>
        direct.first =
            IF SettlementCondition(stmt1, stmt2)
            THEN Return(SettlementConfidence, SettlementExplanation)
            ELSE Return(0, "")

\* the offer and the denial are both in the second text, in upper case, and
\* are found by a term that is not the first of its list
C4_Witness ==
    /\ Called("settlement")
    /\ stmt1.language = "en"
    /\ stmt2.language = "en"
    /\ stmt1.text = TextNeutral
    /\ stmt2.text = TextDenyPayment
    /\ direct.first.score = SettlementConfidence

----------------------------------------------------------------------------
(* C5 *)

HasNegation(s) == s.logical_structure.negation_scope # <<>>

\* the cosine of two arrays of one length is above 7/10
CosineAbove70(a, b) ==
    /\ dot(a, b) > 0
    /\ 100 * dot(a, b) * dot(a, b) > 49 * dot(a, a) * dot(b, b)

\* exactly one statement carries a negation and the embeddings are similar
NegationCondition(s1, s2) ==
    /\ HasNegation(s1) # HasNegation(s2)
    /\ CosineAbove70(s1.embedding.array, s2.embedding.array)

\* C5: on a pair with well-formed embeddings the Negation detector returns
\* 0.92 exactly when exactly one statement has a non-empty negation_scope and
\* the cosine similarity is strictly above 0.70, and (0.0, "") otherwise; the
\* outcome is the same whichever statement carries the negation.
C5_NegationExactly ==
    (Called("negation") /\ WellFormed(stmt1, stmt2)) =>
        /\ direct.first =
              IF NegationCondition(stmt1, stmt2)
              THEN Return(NegationConfidence, NegationExplanation)
              ELSE Return(0, "")
        /\ pc = "called_swapped" => direct.swapped = direct.first

\* the negation is in the second statement only, and both orders fire
C5_Witness ==
    /\ Called("negation")
    /\ pc = "called_swapped"
    /\ WellFormed(stmt1, stmt2)
    /\ ~HasNegation(stmt1)
    /\ HasNegation(stmt2)
    /\ stmt1.embedding # stmt2.embedding
    /\ direct.first.score = NegationConfidence
    /\ direct.swapped.score = NegationConfidence

----------------------------------------------------------------------------
(* C6 *)

\* the rank of an authority name: its entry in the table, or 1
Rank(a) == IF a \in DOMAIN authority_levels THEN authority_levels[a] ELSE 1

\* the pair (i, j) of references is a rank violation
Violation(s1, s2, i, j) ==
    Rank(s1.authority_references[i]) > Rank(s2.authority_references[j])

AuthorityCondition(s1, s2) ==
    \E i \in 1..Len(s1.authority_references) :
        \E j \in 1..Len(s2.authority_references) : Violation(s1, s2, i, j)

\* C6: the Authority detector returns (0.0, "") whenever either statement has
\* no authority reference, and otherwise 0.94 exactly when some reference of
\* stmt1 ranks strictly above some reference of stmt2 (unknown names rank 1);
\* with one reference each, it fires in one order at most.
C6_AuthorityExactly ==
    Called("authority") =>
        /\ (stmt1.authority_references = <<>> \/ stmt2.authority_references = <<>>)
              => direct.first = Return(0, "")
        /\ direct.first.score =
              IF AuthorityCondition(stmt1, stmt2) THEN AuthorityConfidence ELSE 0
        /\ direct.first.score = 0 => direct.first.explanation = ""
        /\ (/\ pc = "called_swapped"
            /\ Len(stmt1.authority_references) = 1
            /\ Len(stmt2.authority_references) = 1
            /\ direct.first.score = AuthorityConfidence)
              => direct.swapped = Return(0, "")

\* stmt1 names the highest court, stmt2 an authority the table does not hold
C6_Witness ==
    /\ Called("authority")
    /\ pc = "called_swapped"
    /\ stmt1.authority_references = <<"H\\u00f8yesterett">>
    /\ stmt2.authority_references = <<"Politiet">>
    /\ direct.first.score = AuthorityConfidence
    /\ direct.swapped = Return(0, "")

----------------------------------------------------------------------------
(* C7 *)

\* (i, j) comes before (k, l) in the nested iteration
Before(i, j, k, l) == i < k \/ (i = k /\ j < l)

\* C7: when the Authority detector fires, its explanation names the first
\* rank-violating pair of the nested iteration (stmt1's references outside,
\* stmt2's inside), stmt2's reference as the lower authority and stmt1's as
\* the higher, whatever later pairs there are.
C7_FirstMatch ==
    (Called("authority") /\ direct.first.score = AuthorityConfidence) =>
        \E i \in 1..Len(stmt1.authority_references) :
            \E j \in 1..Len(stmt2.authority_references) :
                /\ Violation(stmt1, stmt2, i, j)
                /\ \A k \in 1..Len(stmt1.authority_references) :
                      \A l \in 1..Len(stmt2.authority_references) :
                          Before(k, l, i, j) => ~Violation(stmt1, stmt2, k, l)
                /\ direct.first.explanation =
                      "Lower authority " \o stmt2.authority_references[j]
                      \o " contradicts higher authority "
                      \o stmt1.authority_references[i]

\* the first violating pair is named although a later pair has the larger gap
C7_Witness ==
    /\ Called("authority")
    /\ stmt1.authority_references = <<"Tingrett", "H\\u00f8yesterett">>
    /\ stmt2.authority_references = <<"insurance_company", "Politiet">>
    /\ direct.first =
          Return(AuthorityConfidence,
                 "Lower authority insurance_company contradicts higher authority Tingrett")

----------------------------------------------------------------------------
(* C8 *)

Unsupported(s) == s.language \notin SupportedLanguage

\* a pair with well-formed embeddings, a language outside the supported set,
\* and the detectors as written
C8_Case ==
    /\ forced = NotForced
    /\ WellFormed(stmt1, stmt2)
    /\ Unsupported(stmt1) \/ Unsupported(stmt2)

\* C8, as stated: when a statement's language is outside the supported set,
\* each of the three detectors returns zero confidence without failing, and
\* detect_logical_inconsistency returns confidence 0.0.
C8_AsStated ==
    C8_Case =>
        /\ pc # "raised"
        /\ pc \in {"called", "called_swapped"} =>
              (Returned(direct.first) /\ direct.first.score = 0)
        /\ Done => result.score = 0

\* C8, amended: when a statement's language is outside the supported set (and
\* the embeddings are well-formed), no detector fails and the Settlement
\* detector returns (0.0, ""); the Negation and Authority detectors do not
\* read the language and fire as on any other pair, so
\* detect_logical_inconsistency returns 0.94 when Authority fires, else 0.92
\* when Negation fires, and 0.0 only when neither does.
C8_Degradation ==
    C8_Case =>
        /\ pc # "raised"
        /\ pc \in {"called", "called_swapped"} => Returned(direct.first)
        /\ Called("settlement") => direct.first = Return(0, "")
        /\ Called("negation") =>
              direct.first.score =
                  IF NegationCondition(stmt1, stmt2) THEN NegationConfidence ELSE 0
        /\ Called("authority") =>
              direct.first.score =
                  IF AuthorityCondition(stmt1, stmt2) THEN AuthorityConfidence ELSE 0
        /\ Done =>
              /\ scores["settlement"] = Return(0, "")
              /\ result.score =
                    IF AuthorityCondition(stmt1, stmt2) THEN AuthorityConfidence
                    ELSE IF NegationCondition(stmt1, stmt2) THEN NegationConfidence
                    ELSE 0

\* a pair whose first statement is in an unsupported language is reported as a
\* direct negation
C8_Witness ==
    /\ C8_Case
    /\ Done
    /\ Unsupported(stmt1)
    /\ result = ReturnTriple(NegationConfidence, NegationExplanation,
                             "direct_negation")

----------------------------------------------------------------------------
(* C9 *)

\* an embedding is missing or the two differ in dimension, and the detectors
\* are as written
C9_Case == forced = NotForced /\ ~WellFormed(stmt1, stmt2)

\* detect_logical_inconsistency got past the similarity of the embeddings
PastSimilarity == pc \in {"settlement", "negation", "authority", "done"}

\* C9, as stated: on a pair with a missing embedding or embeddings of different
\* dimension detect_logical_inconsistency ends in an error, and the Negation
\* detector on its own never returns a score either.
C9_AsStated ==
    C9_Case =>
        /\ ~PastSimilarity
        /\ pc = "raised" => Raised(result)
        /\ Called("negation") => Raised(direct.first)

\* C9, amended: on such a pair detect_logical_inconsistency ends in an error
\* whatever the negation scopes, texts and authority references are; the
\* Negation detector on its own raises exactly when exactly one statement has
\* a non-empty negation_scope, and returns (0.0, "") without looking at the
\* embeddings when both or neither has one.
C9_FailsLoudly ==
    C9_Case =>
        /\ ~PastSimilarity
        /\ pc = "raised" => Raised(result)
        /\ Called("negation") =>
              IF HasNegation(stmt1) # HasNegation(stmt2)
              THEN Raised(direct.first)
              ELSE direct.first = Return(0, "")

\* embeddings of different dimension, no negation in either statement: the
\* error is that of the orchestrator's own similarity
C9_Witness ==
    /\ C9_Case
    /\ pc = "raised"
    /\ ~stmt1.embedding.is_none
    /\ ~stmt2.embedding.is_none
    /\ ~HasNegation(stmt1)
    /\ ~HasNegation(stmt2)
    /\ result = Raise("ValueError")

----------------------------------------------------------------------------
(* C10 *)

\* the two English statements of the scenario, the other fields well-formed
C10_Case ==
    /\ forced = NotForced
    /\ stmt1.text = TextOffer
    /\ stmt2.text = TextNotLiable
    /\ stmt1.language = "en"
    /\ stmt2.language = "en"
    /\ WellFormed(stmt1, stmt2)

\* C10, as stated: on the scenario's pair detect_logical_inconsistency returns
\* confidence 0.89 and pattern_type "settlement_contradiction", whatever the
\* embeddings, negation scopes and authority references are.
C10_AsStated ==
    (C10_Case /\ Done) =>
        /\ result.score = SettlementConfidence
        /\ result.pattern_type = "settlement_contradiction"

\* C10, amended: on the scenario's pair the Settlement detector scores 0.89,
\* and detect_logical_inconsistency returns 0.89 with pattern_type
\* "settlement_contradiction" exactly when neither the Negation detector nor
\* the Authority detector fires on the remaining fields; it returns 0.94
\* "authority_violation" when Authority fires and otherwise 0.92
\* "direct_negation" when Negation fires.
C10_Scenario ==
    C10_Case =>
        /\ pc # "raised"
        /\ Done =>
              /\ scores["settlement"] =
                    Return(SettlementConfidence, SettlementExplanation)
              /\ result.score >= SettlementConfidence
              /\ result.pattern_type =
                    IF AuthorityCondition(stmt1, stmt2) THEN "authority_violation"
                    ELSE IF NegationCondition(stmt1, stmt2) THEN "direct_negation"
                    ELSE "settlement_contradiction"
              /\ result.score =
                    IF AuthorityCondition(stmt1, stmt2) THEN AuthorityConfidence
                    ELSE IF NegationCondition(stmt1, stmt2) THEN NegationConfidence
                    ELSE SettlementConfidence

\* the negation scopes are those extracted from the two texts, the embeddings
\* are not similar, and the settlement finding is returned
C10_Witness ==
    /\ C10_Case
    /\ Done
    /\ stmt1.logical_structure = _extract_logical_structure(TextOffer, "en")
    /\ stmt2.logical_structure = _extract_logical_structure(TextNotLiable, "en")
    /\ HasNegation(stmt2)
    /\ result = ReturnTriple(SettlementConfidence, SettlementExplanation,
                             "settlement_contradiction")

----------------------------------------------------------------------------
(* Parallel evaluation of one pair (spec section 5): the three detectors     *)
(* complete in any order and their findings are combined afterwards by a     *)
(* sort on (confidence, registration order).  The source has the sequential  *)
(* orchestrator only; the combination is taken from the specification.       *)

\* the finding of detector d: what it returned, under its pattern_type
Finding(d, r) ==
    [detector |-> d, score |-> r.score, explanation |-> r.explanation,
     pattern_type |-> pattern_type_of[d]]

\* the place of a detector in the registration order
registration(d) == CHOOSE i \in 1..Len(DetectorOrder) : DetectorOrder[i] = d

\* f sorts before g: higher confidence, then earlier registration
sorts_before(f, g) ==
    \/ f.score > g.score
    \/ f.score = g.score /\ registration(f.detector) < registration(g.detector)

\* the first finding of the sorted list
RECURSIVE first_sorted(_)
first_sorted(findings) ==
    IF Len(findings) = 1 THEN Head(findings)
    ELSE LET rest == first_sorted(Tail(findings))
         IN  IF sorts_before(Head(findings), rest) THEN Head(findings) ELSE rest

\* the selected finding as a result
selected_finding(findings) ==
    LET f == first_sorted(findings)
    IN  ReturnTriple(f.score, f.explanation, f.pattern_type)

\* the selected finding, with a finding that did not fire reported as the
\* terminal result of section 4.5
reported_finding(findings) ==
    LET f == first_sorted(findings)
    IN  IF f.score > 0
        THEN ReturnTriple(f.score, f.explanation, f.pattern_type)
        ELSE ReturnTriple(0, "", "")

\* the detectors whose finding is in
finished == {completed[i].detector : i \in 1..Len(completed)}

\* the pair is evaluated again, in parallel, once the sequential call returned:
\* one more detector completes
ParallelFinish ==
    /\ pc = "done"
    /\ combined = NotCalled
    /\ \E d \in Detectors \ finished :
          completed' = Append(completed, Finding(d, call_detector(d, stmt1, stmt2)))
    /\ UNCHANGED << inputs, frames, pc, similarity, inconsistency_score, explanation,
                    pattern_type, scores, result, direct, combined >>

\* the three findings are in and are combined
ParallelCombine ==
    /\ finished = Detectors
    /\ combined = NotCalled
    /\ combined' = [kind |-> "combined",
                    selected |-> selected_finding(completed),
                    reported |-> reported_finding(completed)]
    /\ UNCHANGED << inputs, frames, pc, similarity, inconsistency_score, explanation,
                    pattern_type, scores, result, direct, completed >>

\* the pairs the parallel evaluation is tried on: the stubbed detectors, and
\* the statements on which several detectors fire
InitParallel ==
    /\ \/ /\ forced = NotForced
          /\ stmt1 \in MixedStatements
          /\ stmt2 \in MixedStatements
       \/ /\ forced \in Forcings
          /\ stmt1 = ForcedStmt1
          /\ stmt2 = ForcedStmt2
    /\ pc = "idle"
    /\ similarity = NotCalled
    /\ inconsistency_score = 0
    /\ explanation = ""
    /\ pattern_type = ""
    /\ scores = NoScores
    /\ result = NotCalled
    /\ direct = NoDirect
    /\ completed = << >>
    /\ combined = NotCalled
    /\ frames = << >>

NextParallel ==
    \/ DetectStart
    \/ DetectSettlement
    \/ DetectNegation
    \/ DetectAuthority
    \/ ParallelFinish
    \/ ParallelCombine

SpecParallel == InitParallel /\ [][NextParallel]_vars

----------------------------------------------------------------------------
(* C11 *)

Combined == combined # NotCalled

\* C11, as stated: whatever the order in which the three detectors complete,
\* the finding selected on (highest confidence, then earliest registration)
\* is the triple the sequential call returned, also when no detector fires.
C11_AsStated == Combined => combined.selected = result

\* C11, amended: whatever the order in which the three detectors complete,
\* the finding selected on (highest confidence, then earliest registration) is
\* the triple the sequential call returned whenever some detector fires; when
\* none fires the sequential call returned (0.0, "", ""), which the
\* combination equals only by reporting a selected finding of confidence 0.0
\* as (0.0, "", "") instead of under its detector's pattern_type.
C11_ParallelEquivalent ==
    Combined =>
        /\ combined.reported = result
        /\ BestScore > 0 => combined.selected = result
        /\ BestScore = 0 => result = ReturnTriple(0, "", "")

\* Authority completes first and Settlement last, the two tie at 0.89, and the
\* combination returns the Settlement finding as the sequential call did
C11_Witness ==
    /\ Combined
    /\ completed[1].detector = "authority"
    /\ completed[3].detector = "settlement"
    /\ completed[1].score = SettlementConfidence
    /\ completed[3].score = SettlementConfidence
    /\ completed[2].score < SettlementConfidence
    /\ combined.selected = result
    /\ result.pattern_type = "settlement_contradiction"

----------------------------------------------------------------------------
(* Concurrent calls of detect_logical_inconsistency: each call has its own   *)
(* arguments and locals (a coroutine frame) and moves from one await to the  *)
(* next; calls interleave between awaits.                                    *)

\* number of calls in flight
NumCalls == 2
Calls == 1..NumCalls

\* the frame of a call that has not started
NewFrame(s1, s2) ==
    [stmt1 |-> s1, stmt2 |-> s2, pc |-> "idle", inconsistency_score |-> 0,
     explanation |-> "", pattern_type |-> "", result |-> NotCalled]

\* the locals of another call, as if the running best were kept on the engine
locals_of_first_call(c) == frames[1]

\* the locals call c reads: its own
locals(c) == frames[c]

\* lines 455-464 in the frame of call c
frame_started(c) ==
    LET f == frames[c]
        sim == semantic_similarity(f.stmt1, f.stmt2)
    IN  IF Raised(sim)
        THEN [f EXCEPT !.pc = "raised", !.result = sim]
        ELSE [f EXCEPT !.pc = "settlement", !.inconsistency_score = 0,
                       !.explanation = "", !.pattern_type = ""]

\* one detector awaited and compared with the running best, in the frame of
\* call c
frame_stepped(c, d, next) ==
    LET f == frames[c]
        r == call_detector(d, f.stmt1, f.stmt2)
        best == locals(c)
        g == IF replaces(r.score, best.inconsistency_score)
             THEN [f EXCEPT !.inconsistency_score = r.score,
                            !.explanation = r.explanation,
                            !.pattern_type = pattern_type_of[d]]
             ELSE [f EXCEPT !.inconsistency_score = best.inconsistency_score,
                            !.explanation = best.explanation,
                            !.pattern_type = best.pattern_type]
    IN  IF Raised(r)
        THEN [f EXCEPT !.pc = "raised", !.result = r]
        ELSE [g EXCEPT !.pc = next,
                       !.result =
                          IF next = "done"
                          THEN ReturnTriple(g.inconsistency_score, g.explanation,
                                            g.pattern_type)
                          ELSE f.result]

single_call == << stmt1, stmt2, forced, pc, similarity, inconsistency_score,
                  explanation, pattern_type, scores, result, direct, completed,
                  combined >>

ConcurrentStart ==
    \E c \in Calls :
        /\ frames[c].pc = "idle"
        /\ frames' = [frames EXCEPT ![c] = frame_started(c)]
        /\ UNCHANGED single_call

ConcurrentSettlement ==
    \E c \in Calls :
        /\ frames[c].pc = "settlement"
        /\ frames' = [frames EXCEPT ![c] = frame_stepped(c, "settlement", "negation")]
        /\ UNCHANGED single_call

ConcurrentNegation ==
    \E c \in Calls :
        /\ frames[c].pc = "negation"
        /\ frames' = [frames EXCEPT ![c] = frame_stepped(c, "negation", "authority")]
        /\ UNCHANGED single_call

ConcurrentAuthority ==
    \E c \in Calls :
        /\ frames[c].pc = "authority"
        /\ frames' = [frames EXCEPT ![c] = frame_stepped(c, "authority", "done")]
        /\ UNCHANGED single_call

\* the pairs the concurrent calls are made on: nothing fires; Settlement
\* fires; Settlement and Negation fire; all three fire; Authority alone fires;
\* an embedding is missing
OfferStatement(e, a) ==
    SemanticStatement(TextOffer, "en",
                      _extract_logical_structure(TextOffer, "en").negation_scope,
                      e, a)
NotLiableStatement(e, a) ==
    SemanticStatement(TextNotLiable, "en",
                      _extract_logical_structure(TextNotLiable, "en").negation_scope,
                      e, a)
NeutralStatement(e, a) == SemanticStatement(TextNeutral, "en", <<>>, e, a)

ConcurrentPairs ==
    { << NeutralStatement(Array(<<1, 0>>), <<>>),
         NeutralStatement(Array(<<1, 0>>), <<>>) >>,
      << OfferStatement(Array(<<1, 0>>), <<>>),
         NotLiableStatement(Array(<<0, 1>>), <<>>) >>,
      << OfferStatement(Array(<<1, 0>>), <<>>),
         NotLiableStatement(Array(<<1, 0>>), <<>>) >>,
      << OfferStatement(Array(<<1, 0>>), <<"H\\u00f8yesterett">>),
         NotLiableStatement(Array(<<1, 0>>), <<"insurance_company">>) >>,
      << NeutralStatement(Array(<<1, 0>>), <<"Tingrett">>),
         NeutralStatement(Array(<<0, 1>>), <<"Politiet">>) >>,
      << OfferStatement(Array(<<1, 0>>), <<>>),
         NotLiableStatement(NoneEmbedding, <<>>) >> }

InitConcurrent ==
    /\ frames \in {[c \in Calls |-> NewFrame(p[c][1], p[c][2])] :
                      p \in [Calls -> ConcurrentPairs]}
    /\ forced = NotForced
    /\ stmt1 = ForcedStmt1
    /\ stmt2 = ForcedStmt2
    /\ pc = "idle"
    /\ similarity = NotCalled
    /\ inconsistency_score = 0
    /\ explanation = ""
    /\ pattern_type = ""
    /\ scores = NoScores
    /\ result = NotCalled
    /\ direct = NoDirect
    /\ completed = << >>
    /\ combined = NotCalled

NextConcurrent ==
    \/ ConcurrentStart
    \/ ConcurrentSettlement
    \/ ConcurrentNegation
    \/ ConcurrentAuthority

SpecConcurrent == InitConcurrent /\ [][NextConcurrent]_vars

----------------------------------------------------------------------------
(* C12                                                                       *)

\* what a call on (s1, s2) returns when it runs alone: an exception when the
\* embeddings cannot be compared, otherwise the finding of the
\* highest-confidence detector whose condition holds
Alone(s1, s2) ==
    IF ~WellFormed(s1, s2) THEN semantic_similarity(s1, s2)
    ELSE IF AuthorityCondition(s1, s2)
    THEN ReturnTriple(AuthorityConfidence,
                      _check_authority_violation(s1, s2).explanation,
                      "authority_violation")
    ELSE IF NegationCondition(s1, s2)
    THEN ReturnTriple(NegationConfidence, NegationExplanation, "direct_negation")
    ELSE IF SettlementCondition(s1, s2)
    THEN ReturnTriple(SettlementConfidence, SettlementExplanation,
                      "settlement_contradiction")
    ELSE ReturnTriple(0, "", "")

Finished(c) == frames[c].pc \in {"done", "raised"}

ArgumentsKept ==
    \A c \in DOMAIN frames :
        /\ frames'[c].stmt1 = frames[c].stmt1
        /\ frames'[c].stmt2 = frames[c].stmt2

\* C12: however concurrent calls of detect_logical_inconsistency interleave at
\* their awaits, no step of any call changes a call's two statements, and
\* every call that finishes returns (or raises) exactly what it would alone on
\* its own pair, whatever the other calls are doing.
C12_Stateless ==
    /\ [](\A c \in DOMAIN frames :
             Finished(c) => frames[c].result = Alone(frames[c].stmt1, frames[c].stmt2))
    /\ [][ArgumentsKept]_vars

\* call 2 ran from start to finish (Settlement only, 0.89) while call 1 was
\* suspended before Authority holding a Negation finding (0.92) that call 2's
\* result did not pick up
C12_Witness ==
    /\ frames # << >>
    /\ frames[1].pc = "authority"
    /\ frames[1].inconsistency_score = NegationConfidence
    /\ frames[2].pc = "done"
    /\ frames[2].result = ReturnTriple(SettlementConfidence, SettlementExplanation,
                                       "settlement_contradiction")

----------------------------------------------------------------------------
(* C13                                                                       *)

\* the four shapes of a returned triple
NoFinding == ReturnTriple(0, "", "")

Shaped(r, confidence, ptype) ==
    /\ r.score = confidence
    /\ r.explanation # ""
    /\ r.pattern_type = ptype

ResultShapes(r) ==
    \/ r = NoFinding
    \/ Shaped(r, SettlementConfidence, "settlement_contradiction")
    \/ Shaped(r, NegationConfidence, "direct_negation")
    \/ Shaped(r, AuthorityConfidence, "authority_violation")

\* the pattern_type of the highest-precedence detector whose condition holds,
\* Authority before Negation before Settlement
PrecedenceType(s1, s2) ==
    IF AuthorityCondition(s1, s2) THEN "authority_violation"
    ELSE IF NegationCondition(s1, s2) THEN "direct_negation"
    ELSE IF SettlementCondition(s1, s2) THEN "settlement_contradiction"
    ELSE ""

Shipped == forced = NotForced

\* C13: with the shipped detectors, every triple detect_logical_inconsistency
\* returns is (0.0, "", "") or (0.89 | 0.92 | 0.94, a non-empty explanation,
\* the matching pattern_type), and its pattern_type is that of the
\* highest-precedence detector that fires, Authority > Negation > Settlement.
C13_ShapeAndPrecedence ==
    (Done /\ Shipped) =>
        /\ ResultShapes(result)
        /\ result.pattern_type = PrecedenceType(stmt1, stmt2)

\* all three detectors fire on the pair and the Authority finding is returned
C13_Witness ==
    /\ Done
    /\ Shipped
    /\ SettlementCondition(stmt1, stmt2)
    /\ NegationCondition(stmt1, stmt2)
    /\ AuthorityCondition(stmt1, stmt2)
    /\ scores["settlement"].score = SettlementConfidence
    /\ scores["negation"].score = NegationConfidence
    /\ Shaped(result, AuthorityConfidence, "authority_violation")

============================================================================
